---------------------------- MODULE Spec2Model ----------------------------
(***************************************************************************)
(* pesca: pull bank transactions, aggregate and export them, and forward   *)
(* them to the Actual Budget ledger.                                       *)
(*                                                                         *)
(*   Spec        executePull: processSources, writeCombinedOutput,         *)
(*               writeSyncPlaceholder                                      *)
(*   SpecLedger  importTransactions and the Node.js worker (nodeJsMain),   *)
(*               beside writeCombinedOutput on the same aggregated list    *)
(*   SpecBatch   executePull again, the bank sites serving documents of    *)
(*               any content: rows without cells, dates that are no date,  *)
(*               exports without the signature line, several exports       *)
(*   SpecFn      the pure helpers: parseFloatSafely, buildDescription,     *)
(*               convertTransaction, Transaction.amount, and the parsers   *)
(*               parseDbsCsv and parseTable                                *)
(*                                                                         *)
(* Numbers are exact decimals held in thousandths (v = value * 1000) or    *)
(* one of the IEEE specials; strings that the code inspects character by   *)
(* character are sequences of one-character strings.                       *)
(***************************************************************************)
EXTENDS Integers, Sequences, FiniteSets, TLC

VARIABLES
  sources,        \* config.sources: SourceParams[]
  srcIdx,         \* number of sources processSources has finished
  outputs,        \* outputs: DriverOutput[]
  errors,         \* what setError recorded, per source key
  pc,             \* position of executePull
  files,          \* the artifact directory: path -> file
  web,            \* what the sites of the sources not yet pulled serve
  artifacts,      \* the sources' folders of the artifact directory
  fnCall,         \* the pure function applied last
  fnArg,          \* its argument
  fnRet,          \* its result
  transactions,   \* importTransactions: the transactions argument
  params,         \* importTransactions: params.accountMapping (ordered entries)
  dpc,            \* position of importTransactions (Deno side)
  stdin,          \* payload lines written to the worker and not yet read
  written,        \* every payload line written, in order
  wpc,            \* position of nodeJsMain (worker)
  availableAccounts, \* worker: what api.getAccounts returned
  accountIdMapping, \* worker: source account name -> ledger account id
  importCalls,    \* worker: api.importTransactions calls, with their outcome
  exitCode,       \* worker: process exit code (-1 while running)
  importResult    \* what importTransactions returned ("none" before)

pullVars == <<sources, srcIdx, outputs, errors, pc, files, web, artifacts>>
fnVars == <<fnCall, fnArg, fnRet>>
ledgerVars == <<transactions, params, dpc, stdin, written, wpc,
                availableAccounts, accountIdMapping, importCalls, exitCode,
                importResult>>
vars == <<sources, srcIdx, outputs, errors, pc, files, web, artifacts,
          fnCall, fnArg, fnRet,
          transactions, params, dpc, stdin, written, wpc, availableAccounts,
          accountIdMapping, importCalls, exitCode, importResult>>

-----------------------------------------------------------------------------
(* Bounds *)

MaxSources == 2     \* sources in the configuration
MaxTx == 3          \* transactions in the aggregate of one pull
MaxMap == 2         \* entries of the account mapping
MaxLedgerTx == 2    \* transactions handed to importTransactions
MaxStrLen == 3      \* characters of an arbitrary amount cell
MaxThousandths == 6 \* magnitude, in thousandths, of a sub-cent amount
MaxRows == 2        \* rows of the documents given to a parser or a batch
MaxDocs == 2        \* documents one DBS pull downloads

-----------------------------------------------------------------------------
(* Numbers: JavaScript numbers as exact thousandths, or a special *)

Fin(v) == [k |-> "fin", v |-> v]
PosInf == [k |-> "inf", v |-> 1]
NegInf == [k |-> "inf", v |-> -1]
NaN == [k |-> "nan", v |-> 0]

IsNaN(n) == n.k = "nan"
IsFinite(n) == n.k = "fin"

\* sign of a number: -1, 0, 1 (0 for NaN too)
NumSign(n) == IF n.v > 0 THEN 1 ELSE IF n.v < 0 THEN -1 ELSE 0

\* n * c for an integer c
NumTimes(n, c) ==
  CASE n.k = "fin" -> Fin(n.v * c)
    [] n.k = "inf" -> IF c = 0 THEN NaN
                      ELSE IF c > 0 THEN n ELSE [k |-> "inf", v |-> -n.v]
    [] OTHER -> NaN

\* Math.round: the integer nearest to n, halves towards +Infinity
MathRound(n) ==
  IF n.k = "fin" THEN Fin(((n.v + 500) \div 1000) * 1000) ELSE n

\* Math.abs
MathAbs(n) ==
  CASE n.k = "fin" -> Fin(IF n.v < 0 THEN -n.v ELSE n.v)
    [] n.k = "inf" -> PosInf
    [] OTHER -> NaN

-----------------------------------------------------------------------------
(* Temporal.PlainDate *)

PlainDate(y, m, d) == [year |-> y, month |-> m, day |-> d]

\* Temporal.PlainDate.compare
PlainDateCompare(a, b) ==
  IF a.year # b.year THEN (IF a.year < b.year THEN -1 ELSE 1)
  ELSE IF a.month # b.month THEN (IF a.month < b.month THEN -1 ELSE 1)
  ELSE IF a.day # b.day THEN (IF a.day < b.day THEN -1 ELSE 1)
  ELSE 0

Pad2(n) == IF n < 10 THEN "0" \o ToString(n) ELSE ToString(n)

\* Temporal.PlainDate.prototype.toString: ISO 8601
PlainDateToString(d) ==
  ToString(d.year) \o "-" \o Pad2(d.month) \o "-" \o Pad2(d.day)

\* the dates of the model: the later month carries the earlier day of month
DateSet == {PlainDate(2024, 1, 2), PlainDate(2024, 2, 1)}

-----------------------------------------------------------------------------
(* Transaction *)

\* new Transaction(account, date, description, absoluteAmount, isDebit, isPending)
Transaction(account, date, description, absoluteAmount, isDebit, isPending) ==
  [account |-> account, date |-> date, description |-> description,
   absoluteAmount |-> absoluteAmount, isDebit |-> isDebit,
   isPending |-> isPending]

\* get amount()
TransactionAmount(t) == NumTimes(t.absoluteAmount, IF t.isDebit THEN 1 ELSE -1)

\* a sort that puts the later of two equal elements first
SortTiesReversed(s, cmp) ==
  LET Rank(i) == Cardinality({j \in 1..Len(s) : cmp[j][i] < 0})
                 + Cardinality({j \in i..Len(s) : cmp[j][i] = 0})
  IN [k \in 1..Len(s) |-> s[CHOOSE i \in 1..Len(s) : Rank(i) = k]]

\* Array.prototype.sort, which is stable; cmp[i][j] is what the comparator
\* returns for (s[i], s[j])
StableSort(s, cmp) ==
  LET Rank(i) == Cardinality({j \in 1..Len(s) : cmp[j][i] < 0})
                 + Cardinality({j \in 1..i : cmp[j][i] = 0})
  IN [k \in 1..Len(s) |-> s[CHOOSE i \in 1..Len(s) : Rank(i) = k]]

\* all sequences over S of length at most n
SeqsUpTo(S, n) == UNION {[1..k -> S] : k \in 0..n}


-----------------------------------------------------------------------------
(* Pure helpers: parseFloatSafely *)

Digits == {"0", "1", "2", "3", "4", "5", "6", "7", "8", "9"}
DigitValue(c) ==
  CASE c = "0" -> 0 [] c = "1" -> 1 [] c = "2" -> 2 [] c = "3" -> 3
    [] c = "4" -> 4 [] c = "5" -> 5 [] c = "6" -> 6 [] c = "7" -> 7
    [] c = "8" -> 8 [] c = "9" -> 9

WhiteSpace == {" "}

\* the text without its leading white space
TrimStart(s) ==
  LET n == Cardinality({i \in 1..Len(s) :
                          \A j \in 1..i : s[j] \in WhiteSpace})
  IN SubSeq(s, n + 1, Len(s))

\* how many digits the text starts with
DigitsPrefixLen(s) ==
  Cardinality({i \in 1..Len(s) : \A j \in 1..i : s[j] \in Digits})

StartsWith(s, prefix) ==
  Len(s) >= Len(prefix) /\ SubSeq(s, 1, Len(prefix)) = prefix

RECURSIVE DigitsValue(_)
\* the natural number a digit string denotes
DigitsValue(ds) ==
  IF ds = <<>> THEN 0
  ELSE 10 * DigitsValue(SubSeq(ds, 1, Len(ds) - 1)) + DigitValue(ds[Len(ds)])

\* the thousandths a fraction's digits denote (digits past the third dropped)
FractionThousandths(ds) ==
  LET d(i) == IF i <= Len(ds) THEN DigitValue(ds[i]) ELSE 0
  IN 100 * d(1) + 10 * d(2) + d(3)

InfinityLiteral == <<"I", "n", "f", "i", "n", "i", "t", "y">>

\* parseFloat: the longest prefix of the trimmed text that is a decimal
\* literal (texts with an exponent part are outside the model's alphabet)
ParseFloat(s) ==
  LET t == TrimStart(s)
      signed == t # <<>> /\ t[1] \in {"-", "+"}
      negative == t # <<>> /\ t[1] = "-"
      u == IF signed THEN Tail(t) ELSE t
      ni == DigitsPrefixLen(u)
      rest == SubSeq(u, ni + 1, Len(u))
      hasDot == rest # <<>> /\ rest[1] = "."
      nf == IF hasDot THEN DigitsPrefixLen(Tail(rest)) ELSE 0
      magnitude == 1000 * DigitsValue(SubSeq(u, 1, ni))
                   + FractionThousandths(SubSeq(rest, 2, nf + 1))
  IN IF StartsWith(u, InfinityLiteral)
     THEN (IF negative THEN NegInf ELSE PosInf)
     ELSE IF ni = 0 /\ nf = 0 THEN NaN
     ELSE Fin(IF negative THEN -magnitude ELSE magnitude)

\* floatString.replace(/,/g, "")
RemoveCommas(s) == SelectSeq(s, LAMBDA c : c # ",")

\* parseFloatSafely
ParseFloatSafely(floatString, removeCommas) ==
  LET str == IF removeCommas THEN RemoveCommas(floatString) ELSE floatString
      asFloat == ParseFloat(str)
  IN IF IsNaN(asFloat) THEN Fin(0) ELSE asFloat

\* the amount cells of the model: every short text over an alphabet of
\* digits, separators, a sign, a blank and a letter, and some longer ones
FloatAlphabet == {"1", "5", ".", ",", "-", " ", "x"}
FloatSamples ==
  {InfinityLiteral, <<"-">> \o InfinityLiteral, <<" ">> \o InfinityLiteral,
   <<"4", "2", ".", "5">>, <<"1", ",", "2", "3", "4", ".", "5", "6">>,
   <<"S", "G", "D", " ", "1", "0">>, <<"1", "2", "a", "b", "c">>,
   <<"+", "0", ".", "0", "0", "5">>, <<"N", "a", "N">>}
FloatStrings == SeqsUpTo(FloatAlphabet, MaxStrLen) \cup FloatSamples

-----------------------------------------------------------------------------
(* Pure helpers: buildDescription of parseDbsCsv *)

Sentinel == <<"I", "T", "R">>

RECURSIVE Join(_, _)
\* parts.join(sep)
Join(parts, sep) ==
  IF parts = <<>> THEN <<>>
  ELSE IF Len(parts) = 1 THEN parts[1]
  ELSE Join(SubSeq(parts, 1, Len(parts) - 1), sep) \o sep \o parts[Len(parts)]

\* text.replace(/\s+/g, " ")
CollapseWhiteSpace(s) ==
  SelectSeq([i \in 1..Len(s) |->
               IF s[i] \in WhiteSpace
               THEN (IF i > 1 /\ s[i - 1] \in WhiteSpace THEN "" ELSE " ")
               ELSE s[i]],
            LAMBDA c : c # "")

\* buildDescription, on the reference cells [ref0, ref1, ref2, ref3] of a row
BuildDescription(row) ==
  LET p0 == IF row[1] # Sentinel THEN <<row[1]>> ELSE <<>>
      p1 == IF row[2] # <<>> THEN <<row[2]>> ELSE <<>>
      p2 == IF row[3] # <<>> THEN <<row[3]>> ELSE <<>>
      p3 == IF row[4] # <<>> THEN <<row[4]>> ELSE <<>>
      parts == p0 \o p1 \o p2 \o p3
  IN IF Len(parts) = 0 THEN row[1]
     ELSE CollapseWhiteSpace(Join(parts, <<" ">>))

\* the reference cells of the model, trimmed as parseDbsCsv trims them
ReferenceCells ==
  {<<>>, Sentinel, <<"R", "E", "F">>, <<"N", "E", "T", "S">>,
   <<"A", " ", "B">>}
ReferenceRows == [1..4 -> ReferenceCells]

-----------------------------------------------------------------------------
(* Drivers: parseDbsCsv *)

\* text.trim()
Trim(s) ==
  LET n == Cardinality({i \in 1..Len(s) :
                          \A j \in i..Len(s) : s[j] \in WhiteSpace})
  IN TrimStart(SubSeq(s, 1, Len(s) - n))

RECURSIVE Split(_, _)
\* text.split(sep), sep one character
Split(s, sep) ==
  IF \A i \in 1..Len(s) : s[i] # sep THEN <<s>>
  ELSE LET i == CHOOSE k \in 1..Len(s) :
                  s[k] = sep /\ \A j \in 1..(k - 1) : s[j] # sep
       IN <<SubSeq(s, 1, i - 1)>> \o Split(SubSeq(s, i + 1, Len(s)), sep)

\* parseInt: the integer the trimmed text starts with, or NaN
ParseInt(s) ==
  LET t == TrimStart(s)
      signed == t # <<>> /\ t[1] \in {"-", "+"}
      u == IF signed THEN Tail(t) ELSE t
      n == DigitsPrefixLen(u)
      magnitude == 1000 * DigitsValue(SubSeq(u, 1, n))
  IN IF n = 0 THEN NaN
     ELSE Fin(IF t[1] = "-" THEN -magnitude ELSE magnitude)

\* the days of a month of the ISO calendar
DaysInMonth(y, m) ==
  IF m = 2
  THEN (IF y % 4 = 0 /\ (y % 100 # 0 \/ y % 400 = 0) THEN 29 ELSE 28)
  ELSE IF m \in {4, 6, 9, 11} THEN 30 ELSE 31

\* new Temporal.PlainDate(y, m, d) of three numbers: the date, or a
\* RangeError when a field is NaN or outside the calendar
NewPlainDate(y, m, d) ==
  IF /\ IsFinite(y) /\ IsFinite(m) /\ IsFinite(d)
     /\ m.v \div 1000 \in 1..12
     /\ d.v \div 1000 \in 1..DaysInMonth(y.v \div 1000, m.v \div 1000)
  THEN [ok |-> TRUE,
        date |-> PlainDate(y.v \div 1000, m.v \div 1000, d.v \div 1000)]
  ELSE [ok |-> FALSE, date |-> PlainDate(0, 0, 0)]

\* the month abbreviations of the statement dates of the DBS export
MonthNames ==
  <<<<"J", "a", "n">>, <<"F", "e", "b">>, <<"M", "a", "r">>,
    <<"A", "p", "r">>, <<"M", "a", "y">>, <<"J", "u", "n">>,
    <<"J", "u", "l">>, <<"A", "u", "g">>, <<"S", "e", "p">>,
    <<"O", "c", "t">>, <<"N", "o", "v">>, <<"D", "e", "c">>>>

\* new Date(cell).toTemporalInstant().toZonedDateTimeISO("Asia/Singapore")
\* .toPlainDate() of a "dd Mon yyyy" cell, the process running in Singapore
\* time; any other text is an Invalid Date, on which toTemporalInstant throws
\* a RangeError
DbsDate(cell) ==
  LET parts == Split(cell, " ")
  IN IF /\ Len(parts) = 3
        /\ \E m \in 1..12 : MonthNames[m] = parts[2]
        /\ DigitsPrefixLen(parts[1]) = Len(parts[1])
        /\ DigitsPrefixLen(parts[3]) = Len(parts[3])
     THEN NewPlainDate(ParseInt(parts[3]),
                       Fin(1000 * (CHOOSE m \in 1..12 :
                                     MonthNames[m] = parts[2])),
                       ParseInt(parts[1]))
     ELSE [ok |-> FALSE, date |-> PlainDate(0, 0, 0)]

\* a number as a condition: 0 and NaN are falsy
NumTruthy(n) == ~IsNaN(n) /\ n # Fin(0)

\* a > 0
NumPositive(n) == ~IsNaN(n) /\ n.v > 0

Push(arr, x) == Append(arr, x)

\* arr.unshift(x)
Unshift(arr, x) == <<x>> \o arr

\* absoluteAmount = debitAmount || creditAmount, isDebit = debitAmount > 0,
\* and new Transaction(account, date, description, absoluteAmount, isDebit)
DbsTransaction(account, date, description, creditAmount, debitAmount) ==
  Transaction(account, date, description,
              IF NumTruthy(debitAmount) THEN debitAmount ELSE creditAmount,
              NumPositive(debitAmount), FALSE)

\* the body of the loop of parseDbsCsv for one row
\* [date, refs, debit, credit], every cell trimmed first: the Transaction
\* built from it
DbsRowTransaction(account, row) ==
  DbsTransaction(account, DbsDate(Trim(row.date)).date,
                 BuildDescription([i \in 1..4 |-> Trim(row.refs[i])]),
                 ParseFloatSafely(Trim(row.credit), FALSE),
                 ParseFloatSafely(Trim(row.debit), FALSE))

RECURSIVE DbsLoop(_, _, _)
\* for (const cells of rows) { ...; transactions.unshift(...) }
DbsLoop(account, rows, txs) ==
  IF rows = <<>> THEN txs
  ELSE DbsLoop(account, Tail(rows),
               Unshift(txs, DbsRowTransaction(account, Head(rows))))

\* parseDbsCsv, on a document [signature, account, rows]: signature says
\* whether the text contains "Account Details For:", account is the second
\* field of its first line, rows are the records under the header row
ParseDbsCsv(doc) ==
  IF ~doc.signature
  THEN [kind |-> "throw", error |-> "Invalid CSV", transactions |-> <<>>]
  ELSE IF \E i \in 1..Len(doc.rows) : ~DbsDate(Trim(doc.rows[i].date)).ok
  THEN [kind |-> "throw", error |-> "RangeError", transactions |-> <<>>]
  ELSE [kind |-> "return", error |-> "",
        transactions |-> DbsLoop(doc.account, doc.rows, <<>>)]

-----------------------------------------------------------------------------
(* Drivers: parseTable *)

RECURSIVE Str(_)
\* the string of a sequence of characters
Str(cs) == IF cs = <<>> THEN "" ELSE Head(cs) \o Str(Tail(cs))

PendingMarker == <<"p", "e", "n", "d", "i", "n", "g">>
MaskedPanPrefix ==
  <<"x", "x", "x", "x", "x", "x", "x", "x", "x", "x", "x", "x">>

\* the marker is never pushed
ParseRowUnmarked(tr) ==
  <<IF tr.pan # <<>> THEN MaskedPanPrefix \o tr.pan ELSE <<>>>>
  \o tr.tds \o <<<<>>>>

\* parseRow, on a row [pan, pending, tds]: pan holds the four digits of the
\* masked card number in the class attribute (empty without one), pending
\* says whether the class attribute contains "pending", tds are the texts of
\* the cells left after column 0 is removed
ParseRow(tr) ==
  <<IF tr.pan # <<>> THEN MaskedPanPrefix \o tr.pan ELSE <<>>>>
  \o tr.tds
  \o <<IF tr.pending THEN PendingMarker ELSE <<>>>>

\* str.replace(",", ""): the first comma only
RemoveFirstComma(s) ==
  IF \A i \in 1..Len(s) : s[i] # "," THEN s
  ELSE LET i == CHOOSE k \in 1..Len(s) :
                  s[k] = "," /\ \A j \in 1..(k - 1) : s[j] # ","
       IN SubSeq(s, 1, i - 1) \o SubSeq(s, i + 1, Len(s))

\* parseNumber: "SGD 1,234.56" without its first four characters and
\* without its first comma
ParseNumber(str) == RemoveFirstComma(SubSeq(str, 5, Len(str)))

\* whether parsedRow[i] is an element of the array (i counted from 0)
Defined(parsedRow, i) == i + 1 <= Len(parsedRow)

\* the callback of $("tr", tbody).each skips the row: !parsedRow[1]
SkipsRow(parsedRow) == parsedRow[2] = <<>>

\* new Temporal.PlainDate(parseInt(y), parseInt(m), parseInt(d)) of
\* rawDate.split("/")
CitiDate(rawDate) ==
  LET parts == Split(rawDate, "/")
      part(i) == IF i <= Len(parts) THEN ParseInt(parts[i]) ELSE NaN
  IN NewPlainDate(part(3), part(2), part(1))

\* the callback throws on the row: parseNumber of a missing cell is a
\* TypeError, an impossible date a RangeError
RowThrows(parsedRow) ==
  /\ ~SkipsRow(parsedRow)
  /\ \/ ~Defined(parsedRow, 4)
     \/ ~CitiDate(parsedRow[2]).ok

\* amountString of a row that is not skipped
AmountString(parsedRow) ==
  LET debit == <<"-">> \o ParseNumber(parsedRow[4])
      credit == ParseNumber(parsedRow[5])
  IN IF credit # <<>> THEN credit ELSE debit

\* the destructured pending, as a condition
PendingOf(parsedRow) == Defined(parsedRow, 5) /\ parsedRow[6] # <<>>

\* the row pushed to csvRows: [rawDate, remarks, amountString, "", maskedPAN]
CitiCsvRow(parsedRow) ==
  <<parsedRow[2], parsedRow[3], AmountString(parsedRow), <<>>, parsedRow[1]>>

\* amount, isDebit, account and new Transaction(...) of a row, given its
\* maskedPAN, date, remarks, amountString and pending
CitiTransaction(maskedPAN, date, remarks, amountString, isPending) ==
  Transaction("Citi " \o Str(SubSeq(maskedPAN, Len(maskedPAN) - 3,
                                    Len(maskedPAN))),
              date, remarks, MathAbs(ParseFloatSafely(amountString, FALSE)),
              amountString # <<>> /\ amountString[1] = "-", isPending)

\* the Transaction built from a row that is not skipped
CitiRowTransaction(parsedRow) ==
  CitiTransaction(parsedRow[1], CitiDate(parsedRow[2]).date, parsedRow[3],
                  AmountString(parsedRow), PendingOf(parsedRow))

\* the callback of $("tr", tbody).each on a row that does not throw:
\* acc is [csvRows, transactions]
TableRow(parsedRow, acc) ==
  IF SkipsRow(parsedRow) THEN acc
  ELSE [csvRows |-> IF PendingOf(parsedRow) THEN acc.csvRows
                    ELSE Append(acc.csvRows, CitiCsvRow(parsedRow)),
        transactions |-> Unshift(acc.transactions,
                                 CitiRowTransaction(parsedRow))]

RECURSIVE TableLoop(_, _)
\* $("tr", tbody).each(...)
TableLoop(trs, acc) ==
  IF trs = <<>> THEN acc
  ELSE TableLoop(Tail(trs), TableRow(ParseRow(Head(trs)), acc))

\* the rows $("tr", tbody) selects in a document [tbody, rows]: without a
\* tbody element the selection is empty
TableRows(table) == IF table.tbody THEN table.rows ELSE <<>>

\* parseTable, on the selected rows
ParseRows(trs) ==
  IF \E i \in 1..Len(trs) : RowThrows(ParseRow(trs[i]))
  THEN [kind |-> "throw", csvRows |-> <<>>, transactions |-> <<>>]
  ELSE [kind |-> "return"]
       @@ TableLoop(trs, [csvRows |-> <<>>, transactions |-> <<>>])

\* parseTable
ParseTable(table) == ParseRows(TableRows(table))

-----------------------------------------------------------------------------
(* Configuration and drivers *)

\* a source's website, by the driver host names its text contains
CitiSite == {"citibank.com.sg"}
DbsSite == {"dbs.com.sg"}
OtherSite == {}
Websites == {CitiSite, DbsSite, OtherSite}

\* config.sources: the i-th source has key "s<i>"
SourceList(sites) ==
  [i \in 1..Len(sites) |-> [key |-> "s" \o ToString(i), website |-> sites[i]]]

\* selectDriver: the first of [citi, dbs] whose supportsSource accepts
SelectDriver(source) ==
  IF "citibank.com.sg" \in source.website THEN "citi"
  ELSE IF "dbs.com.sg" \in source.website THEN "dbs"
  ELSE "none"

DigitChar(n) ==
  CASE n = 0 -> "0" [] n = 1 -> "1" [] n = 2 -> "2" [] n = 3 -> "3"
    [] n = 4 -> "4" [] n = 5 -> "5" [] n = 6 -> "6" [] n = 7 -> "7"
    [] n = 8 -> "8" [] n = 9 -> "9"
Digits2(n) == <<DigitChar((n \div 10) % 10), DigitChar(n % 10)>>
Digits4(n) == Digits2(n \div 100) \o Digits2(n % 100)

\* the date cell of a row of the Citi table: dd/mm/yyyy
CitiDateCell(d) ==
  Digits2(d.day) \o <<"/">> \o Digits2(d.month) \o <<"/">> \o Digits4(d.year)

\* the date cell of a row of the DBS export: dd Mon yyyy
DbsDateCell(d) ==
  Digits2(d.day) \o <<" ">> \o MonthNames[d.month] \o <<" ">>
  \o Digits4(d.year)

CardDigits == <<"1", "2", "3", "4">>
Fairprice == <<"F", "A", "I", "R", "P", "R", "I", "C", "E">>
GrabRide == <<"G", "R", "A", "B", " ", "R", "I", "D", "E">>
Salary == <<"S", "A", "L", "A", "R", "Y">>

\* a date cell whose text is no date
NoDate == <<"N", "/", "A">>

\* the rows of the Citi transactions table: one card, a settled purchase
\* of SGD 42.50 on each date and a pending one of SGD 4.20 on the latest
CitiRows(dates) ==
  {[pan |-> CardDigits, pending |-> FALSE,
    tds |-> <<CitiDateCell(d), Fairprice,
              <<"S", "G", "D", " ", "4", "2", ".", "5", "0">>, <<>>>>] :
     d \in dates}
  \cup {[pan |-> CardDigits, pending |-> TRUE,
         tds |-> <<CitiDateCell(d), GrabRide,
                   <<"S", "G", "D", " ", "4", ".", "2", "0">>, <<>>>>] :
          d \in {e \in dates :
                   \A f \in dates : PlainDateCompare(f, e) <= 0}}

\* the label of the account in the DBS account selector, and the account
\* its export names
DbsLabel == "POSB Savings"

\* the rows of a DBS export: a credit of 100.00 on each date
DbsRows(dates) ==
  {[date |-> DbsDateCell(d), refs |-> <<Sentinel, Salary, <<>>, <<>>>>,
    debit |-> <<" ">>, credit |-> <<" ", "1", "0", "0", ".", "0", "0">>] :
     d \in dates}

\* what the Citi driver can return
CitiTxs(dates) ==
  {CitiRowTransaction(ParseRow(tr)) : tr \in CitiRows(dates)}

\* what the DBS driver can return
DbsTxs(dates) ==
  {DbsRowTransaction(DbsLabel, row) : row \in DbsRows(dates)}

DriverTxs(driver, dates) ==
  IF driver = "citi" THEN CitiTxs(dates)
  ELSE IF driver = "dbs" THEN DbsTxs(dates)
  ELSE {}

\* what the model lets the sites hold: the rows of the statements, whether
\* a document may lack its table body or its signature line, and how many
\* documents one DBS pull downloads
StatementPool(dates) ==
  [citiRows |-> CitiRows(dates), dbsRows |-> DbsRows(dates),
   tbody |-> {TRUE}, signature |-> {TRUE}, docCounts |-> {1}]

\* the DBS exports with at most n rows; one without the signature line is
\* not an export and has no rows
DbsDocuments(pool, n) ==
  {[signature |-> TRUE, account |-> DbsLabel, rows |-> rows] :
     rows \in SeqsUpTo(pool.dbsRows, n)}
  \cup {[signature |-> FALSE, account |-> "", rows |-> <<>>] :
          b \in pool.signature \ {TRUE}}

\* the Citi pages with at most n rows; one without a table body has no rows
CitiDocuments(pool, n) ==
  {[tbody |-> TRUE, rows |-> rows] : rows \in SeqsUpTo(pool.citiRows, n)}
  \cup {[tbody |-> FALSE, rows |-> <<>>] : b \in pool.tbody \ {TRUE}}

RECURSIVE DocumentLists(_, _, _)
\* the lists of k DBS exports with at most n rows in all
DocumentLists(pool, k, n) ==
  IF k = 0 THEN {<<>>}
  ELSE UNION {{<<doc>> \o rest :
                 rest \in DocumentLists(pool, k - 1, n - Len(doc.rows))} :
                doc \in DbsDocuments(pool, n)}

\* what a bank's site serves to one pull: nothing usable (the browser steps
\* throw), or the documents the driver downloads, with at most n rows
Served(driver, pool, n) ==
  IF driver = "citi"
  THEN {[kind |-> "fails", docs |-> <<>>]}
       \cup {[kind |-> "documents", docs |-> <<doc>>] :
               doc \in CitiDocuments(pool, n)}
  ELSE IF driver = "dbs"
  THEN {[kind |-> "fails", docs |-> <<>>]}
       \cup {[kind |-> "documents", docs |-> docs] :
               docs \in UNION {DocumentLists(pool, k, n) :
                                 k \in pool.docCounts}}
  ELSE {[kind |-> "none", docs |-> <<>>]}

RECURSIVE DocumentRows(_)
\* the rows in a list of documents
DocumentRows(docs) ==
  IF docs = <<>> THEN 0 ELSE Len(Head(docs).rows) + DocumentRows(Tail(docs))

\* the rows in what a site serves
ServedRows(served) == DocumentRows(served.docs)

\* the Citi driver's tasks from "Getting table HTML" on: table.html is
\* stored, and table.csv too when parseTable returned
CitiTasks(tableHTML, parsed) ==
  IF parsed.kind = "throw"
  THEN [kind |-> "throw", transactions |-> <<>>,
        artifacts |-> <<[name |-> "table.html", contents |-> tableHTML]>>]
  ELSE [kind |-> "output", transactions |-> parsed.transactions,
        artifacts |-> <<[name |-> "table.html", contents |-> tableHTML],
                        [name |-> "table.csv",
                         contents |-> parsed.csvRows]>>]

\* the Citi driver's pull
CitiPull(served) ==
  IF served.kind = "fails"
  THEN [kind |-> "throw", transactions |-> <<>>, artifacts |-> <<>>]
  ELSE CitiTasks(served.docs[1], ParseTable(served.docs[1]))

\* the artifacts after storeArtifact(`${label} ${index}.csv`, csvString)
StoreExport(stored, index, csvString) ==
  Append(stored, [name |-> DbsLabel \o " " \o ToString(index) \o ".csv",
                  contents |-> csvString])

RECURSIVE DbsPullLoop(_, _, _)
RECURSIVE DbsPullParsed(_, _, _, _)
\* for (const [index, csvString] of csvStrings.entries()): the artifact is
\* stored, then the text parsed
DbsPullLoop(csvStrings, index, acc) ==
  IF index = Len(csvStrings) THEN acc
  ELSE DbsPullParsed(csvStrings, index,
                     [acc EXCEPT !.artifacts =
                        StoreExport(acc.artifacts, index,
                                    csvStrings[index + 1])],
                     ParseDbsCsv(csvStrings[index + 1]))

\* transactions.push(...parseDbsCsv(csvString)); a throw ends the pull
DbsPullParsed(csvStrings, index, acc, parsed) ==
  IF parsed.kind = "throw"
  THEN [kind |-> "throw", transactions |-> <<>>,
        artifacts |-> acc.artifacts]
  ELSE DbsPullLoop(csvStrings, index + 1,
                   [acc EXCEPT !.transactions =
                      acc.transactions \o parsed.transactions])

\* the DBS driver's pull, the selector holding one account whose statement
\* tabs give the documents
DbsPull(served) ==
  IF served.kind = "fails"
  THEN [kind |-> "throw", transactions |-> <<>>, artifacts |-> <<>>]
  ELSE DbsPullLoop(served.docs, 0,
                   [kind |-> "output", transactions |-> <<>>,
                    artifacts |-> <<>>])

\* driver.pull: a DriverOutput or an exception, and the artifacts stored
DriverPull(driver, served) ==
  IF driver = "citi" THEN CitiPull(served) ELSE DbsPull(served)

\* driver.pull: a DriverOutput, or an exception
PullResults(driver, dates, n) ==
  {[kind |-> r.kind, transactions |-> r.transactions] :
     r \in {DriverPull(driver, served) :
              served \in Served(driver, StatementPool(dates), n)}}

RECURSIVE Webs(_, _, _)
\* what the sites of the sources serve, with at most n rows in all
Webs(srcs, pool, n) ==
  IF srcs = <<>> THEN {<<>>}
  ELSE UNION {{<<w>> \o rest :
                 rest \in Webs(Tail(srcs), pool, n - ServedRows(w))} :
                w \in Served(SelectDriver(Head(srcs)), pool, n)}

-----------------------------------------------------------------------------
(* Aggregation *)

RECURSIVE Aggregate(_)
\* for (const output of outputs) transactions.push(...output.transactions)
Aggregate(outs) ==
  IF outs = <<>> THEN <<>>
  ELSE Aggregate(SubSeq(outs, 1, Len(outs) - 1))
       \o outs[Len(outs)].transactions

\* JSON.stringify of a number: non-finite numbers become null
JsonNumber(n) == IF n.k = "fin" THEN n ELSE [k |-> "null", v |-> 0]

\* comparator of writeCombinedOutput's sort
CombinedCompare(a, b) == PlainDateCompare(a.date, b.date)

PlaceholderCompareReversed(a, b) == PlainDateCompare(b.date, a.date)

\* comparator of writeSyncPlaceholder's sort
PlaceholderCompare(a, b) == PlainDateCompare(a.date, b.date)

\* a row of transactions.csv
CsvRow(t) ==
  <<PlainDateToString(t.date), t.description, TransactionAmount(t), t.account,
    IF t.isPending THEN "pending" ELSE "cleared">>

\* the rows writeCombinedOutput hands to stringifyCsv
CombinedRows(outs) ==
  LET txs == Aggregate(outs)
      sorted == StableSort(txs, [i \in 1..Len(txs) |-> [j \in 1..Len(txs) |->
                                  CombinedCompare(txs[i], txs[j])]])
  IN [i \in 1..Len(sorted) |-> CsvRow(sorted[i])]

\* JSON.stringify of a Transaction: its own fields, the date by toJSON
JsonTransaction(t) ==
  [account |-> t.account, date |-> PlainDateToString(t.date),
   description |-> t.description,
   absoluteAmount |-> JsonNumber(t.absoluteAmount),
   isDebit |-> t.isDebit, isPending |-> t.isPending]

\* the transactions array of output.json
PlaceholderTransactions(outs) ==
  LET txs == Aggregate(outs)
      sorted == StableSort(txs, [i \in 1..Len(txs) |-> [j \in 1..Len(txs) |->
                                  PlaceholderCompare(txs[i], txs[j])]])
  IN [i \in 1..Len(sorted) |-> JsonTransaction(sorted[i])]

\* writeCombinedOutput: if (transactions.length === 0) return
CombinedNothingToWrite(txs) == Len(txs) = 0

PlaceholderAlwaysWrites(txs) == FALSE

\* writeSyncPlaceholder: if (transactions.length === 0) return
PlaceholderNothingToWrite(txs) == Len(txs) = 0

CombinedPath == "transactions.csv"
PlaceholderPath == "output.json"

NoFiles == [p \in {} |-> <<>>]

\* ensureFile(path): the file exists afterwards; a new one is empty
EnsureFile(fs, path) ==
  IF path \in DOMAIN fs THEN fs
  ELSE [p \in DOMAIN fs \cup {path} |->
          IF p = path THEN [complete |-> FALSE, content |-> <<>>] ELSE fs[p]]

\* Deno.writeTextFile(path, content), completed
WriteTextFile(fs, path, content) ==
  [p \in DOMAIN fs \cup {path} |->
     IF p = path THEN [complete |-> TRUE, content |-> content] ELSE fs[p]]

\* outcomes of ensureFile followed by writeTextFile
IoOutcomes == {"ok", "ensureFileThrows", "writeTextFileThrows"}

\* the file system after ensureFile(path); writeTextFile(path, content)
WriteFile(fs, path, content, io) ==
  IF io = "ensureFileThrows" THEN fs
  ELSE IF io = "writeTextFileThrows" THEN EnsureFile(fs, path)
  ELSE WriteTextFile(EnsureFile(fs, path), path, content)

-----------------------------------------------------------------------------
(* executePull *)

\* storeArtifact, for each of the artifacts of one pull in turn
StoreArtifacts(arts, key, stored) ==
  [path \in DOMAIN arts
            \cup {key \o "/" \o stored[i].name : i \in 1..Len(stored)} |->
     IF \E i \in 1..Len(stored) : key \o "/" \o stored[i].name = path
     THEN stored[CHOOSE i \in 1..Len(stored) :
                   /\ key \o "/" \o stored[i].name = path
                   /\ \A j \in (i + 1)..Len(stored) :
                        key \o "/" \o stored[j].name # path].contents
     ELSE arts[path]]

\* processSource, one source: no driver, or withPage around driver.pull
ProcessSource ==
  /\ pc = "processSources"
  /\ srcIdx < Len(sources)
  /\ LET source == sources[srcIdx + 1]
         driver == SelectDriver(source)
     IN IF driver = "none"
        THEN /\ errors' = Append(errors, [key |-> source.key,
                                          error |-> "No matching driver"])
             /\ outputs' = outputs
             /\ artifacts' = artifacts
        ELSE \E page \in {"ok", "newPageThrows", "closeThrows"} :
               \E r \in {DriverPull(driver, Head(web))} :
                  /\ outputs' = IF page # "newPageThrows" /\ r.kind = "output"
                                THEN Append(outputs,
                                            [transactions |-> r.transactions])
                                ELSE outputs
                  /\ artifacts' = IF page # "newPageThrows"
                                  THEN StoreArtifacts(artifacts, source.key,
                                                      r.artifacts)
                                  ELSE artifacts
                  /\ errors' =
                       IF page = "newPageThrows"
                       THEN Append(errors,
                                   [key |-> source.key,
                                    error |-> "Failed processing source"])
                       ELSE LET e1 == IF r.kind = "throw"
                                      THEN Append(errors,
                                                  [key |-> source.key,
                                                   error |-> "pull threw"])
                                      ELSE errors
                            IN IF page = "closeThrows"
                               THEN Append(e1,
                                      [key |-> source.key,
                                       error |-> "Failed processing source"])
                               ELSE e1
  /\ srcIdx' = srcIdx + 1
  /\ web' = Tail(web)
  /\ UNCHANGED <<sources, pc, files>>
  /\ UNCHANGED fnVars
  /\ UNCHANGED ledgerVars

\* processSources: the task group has run every source; return outputs
ProcessSourcesReturn ==
  /\ pc = "processSources"
  /\ srcIdx = Len(sources)
  /\ pc' = "writeCombinedOutput"
  /\ UNCHANGED <<sources, srcIdx, outputs, errors, files, web, artifacts>>
  /\ UNCHANGED fnVars
  /\ UNCHANGED ledgerVars

\* writeCombinedOutput
WriteCombinedOutput ==
  /\ pc = "writeCombinedOutput"
  /\ IF CombinedNothingToWrite(Aggregate(outputs))
     THEN /\ files' = files
          /\ pc' = "writeSyncPlaceholder"
     ELSE \E io \in IoOutcomes :
            /\ files' = WriteFile(files, CombinedPath,
                                  CombinedRows(outputs), io)
            /\ pc' = IF io = "ok" THEN "writeSyncPlaceholder" ELSE "failed"
  /\ UNCHANGED <<sources, srcIdx, outputs, errors, web, artifacts>>
  /\ UNCHANGED fnVars
  /\ UNCHANGED ledgerVars

\* writeSyncPlaceholder
WriteSyncPlaceholder ==
  /\ pc = "writeSyncPlaceholder"
  /\ IF PlaceholderNothingToWrite(Aggregate(outputs))
     THEN /\ files' = files
          /\ pc' = "done"
     ELSE \E io \in IoOutcomes :
            /\ files' = WriteFile(files, PlaceholderPath,
                                  [transactions |->
                                     PlaceholderTransactions(outputs)], io)
            /\ pc' = IF io = "ok" THEN "done" ELSE "failed"
  /\ UNCHANGED <<sources, srcIdx, outputs, errors, web, artifacts>>
  /\ UNCHANGED fnVars
  /\ UNCHANGED ledgerVars

\* the pure helpers and the ledger adapter at rest
FnIdle == fnCall = "none" /\ fnArg = <<>> /\ fnRet = <<>>

LedgerIdle ==
  /\ transactions = <<>>
  /\ params = <<>>
  /\ dpc = "idle"
  /\ stdin = <<>>
  /\ written = <<>>
  /\ wpc = "idle"
  /\ availableAccounts = [fetched |-> FALSE, accounts |-> {}]
  /\ accountIdMapping = [resolved |-> FALSE, entries |-> <<>>]
  /\ importCalls = <<>>
  /\ exitCode = -1
  /\ importResult = "none"

\* main: the configuration is resolved, nothing is pulled yet
Init ==
  /\ sources \in {SourceList(sites) : sites \in SeqsUpTo(Websites, MaxSources)}
  /\ srcIdx = 0
  /\ outputs = <<>>
  /\ errors = <<>>
  /\ pc = "processSources"
  /\ files = NoFiles
  /\ web \in Webs(sources, StatementPool(DateSet), MaxTx)
  /\ artifacts = NoFiles
  /\ FnIdle
  /\ LedgerIdle

\* the date of the statement rows of a batch
BatchDates == {PlainDate(2024, 2, 1)}

\* what the sites may hold when nothing is assumed of their documents:
\* statement rows, rows without cells, rows whose date is no date, pages
\* without a table body, exports without the signature line, and any number
\* of exports in one DBS pull
AnyPool ==
  [citiRows |-> CitiRows(BatchDates)
                \cup {[pan |-> <<>>, pending |-> FALSE, tds |-> <<>>],
                      [pan |-> CardDigits, pending |-> FALSE,
                       tds |-> <<NoDate, Fairprice, <<>>, <<>>>>]},
   dbsRows |-> DbsRows(BatchDates)
               \cup {[date |-> NoDate, refs |-> <<Sentinel, Salary, <<>>, <<>>>>,
                      debit |-> <<>>, credit |-> <<>>]},
   tbody |-> BOOLEAN, signature |-> BOOLEAN, docCounts |-> 0..MaxDocs]

\* the configurations of a batch: one bank source, or a pair of them
BatchSites ==
  {<<a>> : a \in {CitiSite, DbsSite}}
  \cup {<<a, b>> : a \in {CitiSite, DbsSite}, b \in {CitiSite, DbsSite}}

\* main, the sites serving any documents
InitBatch ==
  /\ sources \in {SourceList(sites) : sites \in BatchSites}
  /\ srcIdx = 0
  /\ outputs = <<>>
  /\ errors = <<>>
  /\ pc = "processSources"
  /\ files = NoFiles
  /\ web \in Webs(sources, AnyPool, MaxRows)
  /\ artifacts = NoFiles
  /\ FnIdle
  /\ LedgerIdle

Next ==
  \/ ProcessSource
  \/ ProcessSourcesReturn
  \/ WriteCombinedOutput
  \/ WriteSyncPlaceholder

Spec == Init /\ [][Next]_vars

SpecBatch == InitBatch /\ [][Next]_vars

-----------------------------------------------------------------------------
(* Ledger adapter: importTransactions (Deno side) *)

\* the canonical sign kept: debits positive
ConvertTransactionDebitPositive(t) ==
  LET sign == IF t.isDebit THEN 1 ELSE -1
  IN [date |-> PlainDateToString(t.date),
      amount |-> NumTimes(MathRound(NumTimes(t.absoluteAmount, 100)), sign),
      notes |-> t.description,
      imported_payee |-> t.description,
      payee |-> t.description,
      cleared |-> ~t.isPending]

\* convertTransaction
ConvertTransaction(t) ==
  LET sign == IF t.isDebit THEN -1 ELSE 1
  IN [date |-> PlainDateToString(t.date),
      amount |-> NumTimes(MathRound(NumTimes(t.absoluteAmount, 100)), sign),
      notes |-> t.description,
      imported_payee |-> t.description,
      payee |-> t.description,
      cleared |-> ~t.isPending]

\* Object.keys(params.accountMapping)
ObjectKeys(mapping) == [i \in 1..Len(mapping) |-> mapping[i].source]

\* every account met gets a group, mapped or not
GroupEveryAccount(accountNames, txs) ==
  LET Names(k) == IF k <= Len(accountNames) THEN accountNames[k]
                  ELSE txs[k - Len(accountNames)].account
      n == Len(accountNames) + Len(txs)
      firsts == SelectSeq([k \in 1..n |-> k],
                          LAMBDA k : \A j \in 1..(k - 1) : Names(j) # Names(k))
  IN [i \in 1..Len(firsts) |->
        [account |-> Names(firsts[i]),
         transactions |->
           SelectSeq(txs, LAMBDA t : t.account = Names(firsts[i]))]]

\* a grouping that keeps one of several equal transactions
GroupWithoutDuplicates(accountNames, txs) ==
  LET firsts == SelectSeq([k \in 1..Len(txs) |-> k],
                          LAMBDA k : \A j \in 1..(k - 1) : txs[j] # txs[k])
  IN [i \in 1..Len(accountNames) |->
        [account |-> accountNames[i],
         transactions |->
           SelectSeq([k \in 1..Len(firsts) |-> txs[firsts[k]]],
                     LAMBDA t : t.account = accountNames[i])]]

\* groupTransactionsByAccount: the Map's entries, in insertion order
GroupTransactionsByAccount(accountNames, txs) ==
  [i \in 1..Len(accountNames) |->
     [account |-> accountNames[i],
      transactions |-> SelectSeq(txs, LAMBDA t : t.account = accountNames[i])]]

\* JSON.stringify(payload) as JSON.parse reads it back
JsonPayload(account, converted) ==
  [account |-> account,
   transactions |->
     [i \in 1..Len(converted) |->
        [converted[i] EXCEPT !.amount = JsonNumber(converted[i].amount)]]]

\* the lines importTransactions writes, one per entry of the grouping
PayloadLines(groups) ==
  [i \in 1..Len(groups) |->
     JsonPayload(groups[i].account,
                 [j \in 1..Len(groups[i].transactions) |->
                    ConvertTransaction(groups[i].transactions[j])])]

ImportReturnsTrue(code) == "true"

\* return (code === 0)
ImportReturnValue(code) == IF code = 0 THEN "true" ELSE "false"

\* source accounts and ledger account names of a configuration
MappingKeys == {"Citi 1234", "POSB Savings", "Cash"}
DestinationNames == {"Checking", "Card"}

\* params.accountMapping: ordered entries with distinct keys
AccountMappings ==
  {m \in SeqsUpTo([source : MappingKeys, destination : DestinationNames],
                  MaxMap) :
     \A i \in 1..Len(m) : \A j \in 1..Len(m) :
       m[i].source = m[j].source => i = j}

\* importTransactions, up to the await of the worker's output
ImportTransactions ==
  /\ dpc = "idle"
  /\ pc = "done"
  /\ \E m \in AccountMappings : \E spawn \in {"ok", "throws"} :
       LET txs == Aggregate(outputs)
           lines == PayloadLines(
                      GroupTransactionsByAccount(ObjectKeys(m), txs))
       IN /\ transactions' = txs
          /\ params' = m
          /\ IF spawn = "throws"
             THEN /\ dpc' = "threw"
                  /\ UNCHANGED <<stdin, written, wpc>>
             ELSE /\ dpc' = "waiting"
                  /\ written' = lines
                  /\ stdin' = lines
                  /\ wpc' = "start"
  /\ UNCHANGED <<availableAccounts, accountIdMapping, importCalls, exitCode,
                 importResult>>
  /\ UNCHANGED pullVars
  /\ UNCHANGED fnVars

\* importTransactions, after childProcess.output() resolved
ImportTransactionsReturn ==
  /\ dpc = "waiting"
  /\ wpc = "exited"
  /\ importResult' = ImportReturnValue(exitCode)
  /\ dpc' = "returned"
  /\ UNCHANGED <<transactions, params, stdin, written, wpc, availableAccounts,
                 accountIdMapping, importCalls, exitCode>>
  /\ UNCHANGED pullVars
  /\ UNCHANGED fnVars

-----------------------------------------------------------------------------
(* Ledger adapter: nodeJsMain (the worker) *)

\* the ledger's accounts, as api.getAccounts returns them
LedgerAccounts ==
  {[name |-> "Checking", id |-> "acct-1"], [name |-> "Card", id |-> "acct-2"]}

\* getAccounts: name -> id
AccountNames(accounts) == {a.name : a \in accounts}
AccountIdOf(accounts, name) == (CHOOSE a \in accounts : a.name = name).id

RECURSIVE ResolveSkippingMissing(_, _)
ResolveSkippingMissing(mapping, accounts) ==
  IF mapping = <<>> THEN [resolved |-> TRUE, entries |-> <<>>]
  ELSE LET rest == ResolveSkippingMissing(Tail(mapping), accounts)
           e == Head(mapping)
       IN IF e.destination \in AccountNames(accounts)
          THEN [resolved |-> TRUE,
                entries |-> <<[source |-> e.source,
                               id |-> AccountIdOf(accounts, e.destination)]>>
                            \o rest.entries]
          ELSE rest

\* processAccountMapping, after getAccounts: the id mapping, or the throw
ResolveAccountMapping(mapping, accounts) ==
  IF \A i \in 1..Len(mapping) :
       mapping[i].destination \in AccountNames(accounts)
  THEN [resolved |-> TRUE,
        entries |-> [i \in 1..Len(mapping) |->
                       [source |-> mapping[i].source,
                        id |-> AccountIdOf(accounts,
                                           mapping[i].destination)]]]
  ELSE [resolved |-> FALSE, entries |-> <<>>]

\* accountIdMapping.get(name)
AccountIdMappingGet(entries, name) ==
  IF \E i \in 1..Len(entries) : entries[i].source = name
  THEN entries[CHOOSE i \in 1..Len(entries) : entries[i].source = name].id
  ELSE "undefined"

\* api.init and api.downloadBudget
WorkerConnect ==
  /\ wpc = "start"
  /\ \E ok \in BOOLEAN :
       wpc' = IF ok THEN "processAccountMapping" ELSE "catch"
  /\ UNCHANGED <<transactions, params, dpc, stdin, written, availableAccounts,
                 accountIdMapping, importCalls, exitCode, importResult>>
  /\ UNCHANGED pullVars
  /\ UNCHANGED fnVars

\* processAccountMapping
ProcessAccountMapping ==
  /\ wpc = "processAccountMapping"
  /\ \/ \* api.getAccounts rejects
        /\ wpc' = "catch"
        /\ UNCHANGED <<availableAccounts, accountIdMapping>>
     \/ \E accounts \in SUBSET LedgerAccounts :
          LET r == ResolveAccountMapping(params, accounts)
          IN /\ availableAccounts' = [fetched |-> TRUE, accounts |-> accounts]
             /\ IF r.resolved
                THEN /\ accountIdMapping' = r
                     /\ wpc' = "processTransactions"
                ELSE /\ accountIdMapping' = accountIdMapping
                     /\ wpc' = "catch"
  /\ UNCHANGED <<transactions, params, dpc, stdin, written, importCalls,
                 exitCode, importResult>>
  /\ UNCHANGED pullVars
  /\ UNCHANGED fnVars

\* processTransactions, one line of stdin
ProcessTransactionsLine ==
  /\ wpc = "processTransactions"
  /\ stdin # <<>>
  /\ LET line == Head(stdin)
         accountId == AccountIdMappingGet(accountIdMapping.entries,
                                          line.account)
     IN IF accountId = "undefined"
        THEN UNCHANGED <<importCalls, wpc>>
        ELSE \E outcome \in {"resolved", "rejected"} :
               /\ importCalls' =
                    Append(importCalls,
                           [account |-> line.account, accountId |-> accountId,
                            transactions |-> line.transactions,
                            outcome |-> outcome])
               /\ wpc' = IF outcome = "rejected" THEN "catch" ELSE wpc
  /\ stdin' = Tail(stdin)
  /\ UNCHANGED <<transactions, params, dpc, written, availableAccounts,
                 accountIdMapping, exitCode, importResult>>
  /\ UNCHANGED pullVars
  /\ UNCHANGED fnVars

\* processTransactions returned: process.exit(0)
WorkerExit ==
  /\ wpc = "processTransactions"
  /\ stdin = <<>>
  /\ exitCode' = 0
  /\ wpc' = "exited"
  /\ UNCHANGED <<transactions, params, dpc, stdin, written, availableAccounts,
                 accountIdMapping, importCalls, importResult>>
  /\ UNCHANGED pullVars
  /\ UNCHANGED fnVars

\* catch (e): api.sync, api.shutdown, process.exit(1)
WorkerCatch ==
  /\ wpc = "catch"
  /\ exitCode' = 1
  /\ wpc' = "exited"
  /\ UNCHANGED <<transactions, params, dpc, stdin, written, availableAccounts,
                 accountIdMapping, importCalls, importResult>>
  /\ UNCHANGED pullVars
  /\ UNCHANGED fnVars

\* the date of the transactions handed to the ledger
LedgerDates == {PlainDate(2024, 2, 1)}

\* processSource on one more source, whose pull gives r
PulledNext(before, key, r) ==
  [outputs |-> IF r.kind = "output"
               THEN Append(before.outputs, [transactions |-> r.transactions])
               ELSE before.outputs,
   artifacts |-> StoreArtifacts(before.artifacts, key, r.artifacts),
   returned |-> before.returned /\ r.kind = "output"]

RECURSIVE Pulled(_, _)
\* processSources on sources whose sites serve w, no page failing: the
\* outputs, the artifacts, and whether every pull returned
Pulled(srcs, w) ==
  IF srcs = <<>>
  THEN [outputs |-> <<>>, artifacts |-> NoFiles, returned |-> TRUE]
  ELSE PulledNext(Pulled(SubSeq(srcs, 1, Len(srcs) - 1),
                         SubSeq(w, 1, Len(srcs) - 1)),
                  srcs[Len(srcs)].key,
                  DriverPull(SelectDriver(srcs[Len(srcs)]), w[Len(srcs)]))

\* the outputs and artifacts of a processSources in which every pull
\* succeeded
PulledOutputs(srcs) ==
  {p \in {Pulled(srcs, w) :
            w \in Webs(srcs, StatementPool(LedgerDates), MaxLedgerTx)} :
     p.returned}

\* executePull after processSources returned, every pull having succeeded
InitLedger ==
  /\ sources \in {SourceList(sites) :
                    sites \in SeqsUpTo({CitiSite, DbsSite}, MaxSources)}
  /\ srcIdx = Len(sources)
  /\ \E p \in PulledOutputs(sources) :
       /\ outputs = p.outputs
       /\ artifacts = p.artifacts
  /\ errors = <<>>
  /\ pc = "writeCombinedOutput"
  /\ files = NoFiles
  /\ web = <<>>
  /\ FnIdle
  /\ LedgerIdle

NextLedger ==
  \/ WriteCombinedOutput
  \/ WriteSyncPlaceholder
  \/ ImportTransactions
  \/ WorkerConnect
  \/ ProcessAccountMapping
  \/ ProcessTransactionsLine
  \/ WorkerExit
  \/ WorkerCatch
  \/ ImportTransactionsReturn

SpecLedger == InitLedger /\ [][NextLedger]_vars

-----------------------------------------------------------------------------
(* Pure helpers: one application *)

\* the amounts of the model: sub-cent magnitudes of either sign, the spec's
\* example 42.5, and the non-finite values parseFloatSafely lets through
FnAmounts ==
  {Fin(v) : v \in (-MaxThousandths)..MaxThousandths}
  \cup {Fin(42500), Fin(-42500), PosInf, NegInf}

FnTransactions ==
  {Transaction("Citi 1234", PlainDate(2024, 2, 1), "FAIRPRICE", a, d, p) :
     a \in FnAmounts, d \in BOOLEAN, p \in BOOLEAN}

ParseFloatSafelyCall ==
  /\ fnCall = "none"
  /\ \E s \in FloatStrings : \E removeCommas \in BOOLEAN :
       /\ fnArg' = [floatString |-> s, removeCommas |-> removeCommas]
       /\ fnRet' = ParseFloatSafely(s, removeCommas)
  /\ fnCall' = "parseFloatSafely"
  /\ UNCHANGED pullVars
  /\ UNCHANGED ledgerVars

BuildDescriptionCall ==
  /\ fnCall = "none"
  /\ \E row \in ReferenceRows :
       /\ fnArg' = row
       /\ fnRet' = BuildDescription(row)
  /\ fnCall' = "buildDescription"
  /\ UNCHANGED pullVars
  /\ UNCHANGED ledgerVars

ConvertTransactionCall ==
  /\ fnCall = "none"
  /\ \E t \in FnTransactions :
       /\ fnArg' = t
       /\ fnRet' = ConvertTransaction(t)
  /\ fnCall' = "convertTransaction"
  /\ UNCHANGED pullVars
  /\ UNCHANGED ledgerVars

\* the amount cells of the parsers' rows: blank, two amounts, a negative
\* amount and a text that is no number
FnCells == {<<>>, <<"5">>, <<"7">>, <<"-", "5">>, <<"x">>}

\* the date of the parsers' rows: 1 Feb 2024
FnDate == PlainDate(2024, 2, 1)

\* the DBS exports given to parseDbsCsv
FnDbsRows ==
  {[date |-> date, refs |-> <<Sentinel, Salary, <<>>, <<>>>>,
    debit |-> debit, credit |-> credit] :
     date \in {DbsDateCell(FnDate), NoDate},
     debit \in FnCells, credit \in FnCells}
FnDbsDocuments ==
  DbsDocuments([dbsRows |-> FnDbsRows, signature |-> BOOLEAN], MaxRows)

\* the Citi pages given to parseTable: rows of four cells whose date cell
\* may be blank, and rows without cells
Sgd(cell) == IF cell = <<>> THEN <<>> ELSE <<"S", "G", "D", " ">> \o cell
FnCitiRows ==
  {[pan |-> CardDigits, pending |-> pending,
    tds |-> <<date, Fairprice, Sgd(debit), Sgd(credit)>>] :
     pending \in BOOLEAN, date \in {CitiDateCell(FnDate), NoDate, <<>>},
     debit \in FnCells \ {<<"7">>, <<"x">>},
     credit \in FnCells \ {<<"5">>, <<"-", "5">>}}
  \cup {[pan |-> <<>>, pending |-> pending, tds |-> <<>>] :
          pending \in BOOLEAN}
FnCitiDocuments ==
  CitiDocuments([citiRows |-> FnCitiRows, tbody |-> BOOLEAN], MaxRows)

ParseDbsCsvCall ==
  /\ fnCall = "none"
  /\ \E contents \in FnDbsDocuments :
       /\ fnArg' = contents
       /\ fnRet' = ParseDbsCsv(contents)
  /\ fnCall' = "parseDbsCsv"
  /\ UNCHANGED pullVars
  /\ UNCHANGED ledgerVars

ParseTableCall ==
  /\ fnCall = "none"
  /\ \E tableHTML \in FnCitiDocuments :
       /\ fnArg' = tableHTML
       /\ fnRet' = ParseTable(tableHTML)
  /\ fnCall' = "parseTable"
  /\ UNCHANGED pullVars
  /\ UNCHANGED ledgerVars

InitFn ==
  /\ sources = <<>>
  /\ srcIdx = 0
  /\ outputs = <<>>
  /\ errors = <<>>
  /\ pc = "processSources"
  /\ files = NoFiles
  /\ web = <<>>
  /\ artifacts = NoFiles
  /\ FnIdle
  /\ LedgerIdle

NextFn ==
  \/ ParseFloatSafelyCall
  \/ BuildDescriptionCall
  \/ ConvertTransactionCall
  \/ ParseDbsCsvCall
  \/ ParseTableCall

SpecFn == InitFn /\ [][NextFn]_vars

-----------------------------------------------------------------------------
(* Properties of executePull *)

Range(s) == {s[i] : i \in 1..Len(s)}
Count(s, x) == Cardinality({i \in 1..Len(s) : s[i] = x})
SameMultiset(a, b) ==
  /\ Len(a) = Len(b)
  /\ \A x \in Range(a) \cup Range(b) : Count(a, x) = Count(b, x)

\* a file that was written to the end
Written(path) == path \in DOMAIN files /\ files[path].complete

\* the date an ISO 8601 string denotes
DateOfString(str) == CHOOSE d \in DateSet : PlainDateToString(d) = str

\* C6: transactions.csv lists its rows by date descending: of two consecutive
\* rows the first has the later or the same date.
C6_CombinedDescending ==
  Written(CombinedPath) =>
    LET rows == files[CombinedPath].content
    IN \A i \in 1..(Len(rows) - 1) :
         PlainDateCompare(DateOfString(rows[i][1]),
                          DateOfString(rows[i + 1][1])) >= 0

\* C7: output.json holds the whole aggregate, pending transactions included,
\* as the same multiset as the concatenation of the driver outputs, by date
\* ascending.
C7_PlaceholderAscending ==
  Written(PlaceholderPath) =>
    LET txs == files[PlaceholderPath].content.transactions
        agg == Aggregate(outputs)
    IN /\ SameMultiset(txs, [i \in 1..Len(agg) |-> JsonTransaction(agg[i])])
       /\ \A i \in 1..(Len(txs) - 1) :
            PlainDateCompare(DateOfString(txs[i].date),
                             DateOfString(txs[i + 1].date)) <= 0

\* two sources were concatenated out of date order, a pending row among them
C7_Witness ==
  /\ Written(PlaceholderPath)
  /\ Len(outputs) >= 2
  /\ LET agg == Aggregate(outputs)
     IN /\ \E i \in 1..Len(agg) : agg[i].isPending
        /\ \E i \in 1..Len(agg) : \E j \in (i + 1)..Len(agg) :
             PlainDateCompare(agg[i].date, agg[j].date) > 0
        /\ \E i \in 1..Len(outputs[1].transactions) :
           \E j \in (i + 1)..Len(outputs[1].transactions) :
             PlainDateCompare(outputs[1].transactions[i].date,
                              outputs[1].transactions[j].date) > 0

\* C8: with an empty aggregate neither writer creates a file, and the pull
\* does not fail.
C8_EmptyWritesNothing ==
  Len(Aggregate(outputs)) = 0 => DOMAIN files = {} /\ pc # "failed"

\* both writers have run on outputs that hold no transaction
C8_Witness ==
  /\ pc = "done"
  /\ Len(outputs) > 0
  /\ Len(Aggregate(outputs)) = 0

\* both writers have run with no output at all
C8_WitnessNoOutputs ==
  /\ pc = "done"
  /\ Len(sources) > 0
  /\ Len(outputs) = 0

-----------------------------------------------------------------------------
(* Properties of the ledger adapter *)

\* the worker attempted the import call of a source account
Attempted(account) ==
  \E i \in 1..Len(importCalls) : importCalls[i].account = account

SomeImportRejected ==
  \E i \in 1..Len(importCalls) : importCalls[i].outcome = "rejected"

\* C1: once account-mapping resolution has succeeded, the import call of
\* every mapped account has been attempted when the worker ends, whatever
\* the outcome of the calls before it.
C1_EveryMappedAccountAttempted ==
  (wpc = "exited" /\ accountIdMapping.resolved) =>
    \A i \in 1..Len(params) : Attempted(params[i].source)

\* a configured destination that the ledger's account list lacks
BadDestination ==
  /\ availableAccounts.fetched
  /\ \E i \in 1..Len(params) :
       params[i].destination \notin AccountNames(availableAccounts.accounts)

\* C2: when a configured destination account is absent from the ledger's
\* account list, no import call is made at all, wherever the bad entry
\* stands in the mapping.
C2_NoSubmissionOnBadDestination ==
  BadDestination => importCalls = <<>>

\* the worker ended on a mapping whose first entry is good, has transactions
\* to submit, and whose second entry is bad
C2_Witness ==
  /\ wpc = "exited"
  /\ BadDestination
  /\ Len(params) >= 2
  /\ params[1].destination \in AccountNames(availableAccounts.accounts)
  /\ Len(written[1].transactions) > 0
  /\ stdin = written

\* C3: the run reports failure whenever account-mapping resolution failed or
\* an import call failed, and success only when resolution succeeded and
\* every attempted import call succeeded; importTransactions returns the
\* worker's verdict.
C3_OverallResult ==
  /\ wpc = "exited" =>
       /\ (~accountIdMapping.resolved \/ SomeImportRejected) => exitCode # 0
       /\ exitCode = 0 => (accountIdMapping.resolved /\ ~SomeImportRejected)
  /\ dpc = "returned" =>
       /\ (~accountIdMapping.resolved \/ SomeImportRejected)
            => importResult = "false"
       /\ importResult = "true"
            => (accountIdMapping.resolved /\ ~SomeImportRejected)
       /\ importResult = "true" <=> exitCode = 0

\* importTransactions returned false after one import succeeded and the next
\* was rejected
C3_Witness ==
  /\ dpc = "returned"
  /\ importResult = "false"
  /\ accountIdMapping.resolved
  /\ Len(importCalls) = 2
  /\ importCalls[1].outcome = "resolved"
  /\ importCalls[2].outcome = "rejected"

\* importTransactions returned true after two imports
C3_WitnessSuccess ==
  /\ dpc = "returned"
  /\ importResult = "true"
  /\ Len(importCalls) = 2

\* the payload the adapter forms for one account of the input
ExpectedPayload(account) ==
  LET own == SelectSeq(transactions, LAMBDA t : t.account = account)
  IN JsonPayload(account, [j \in 1..Len(own) |-> ConvertTransaction(own[j])])

\* C5: a transaction of an account that is no key of the mapping is in no
\* payload, written or submitted, and its presence stops nothing: every key
\* still gets its payload; the combined export holds every aggregated
\* transaction, whatever the mapping.
C5_UnmappedExcludedButExported ==
  /\ dpc \in {"waiting", "returned"} =>
       /\ Len(written) = Len(params)
       /\ \A i \in 1..Len(written) :
            /\ written[i].account = params[i].source
            /\ written[i] = ExpectedPayload(written[i].account)
       /\ \A k \in 1..Len(transactions) :
            transactions[k].account \notin Range(ObjectKeys(params)) =>
              \A i \in 1..Len(written) :
                ExpectedPayload(transactions[k].account).transactions[1]
                  \notin Range(written[i].transactions)
       /\ \A c \in 1..Len(importCalls) :
            /\ importCalls[c].account \in Range(ObjectKeys(params))
            /\ importCalls[c].transactions
                 = ExpectedPayload(importCalls[c].account).transactions
  /\ (dpc # "idle" /\ Len(transactions) > 0) =>
       /\ Written(CombinedPath)
       /\ SameMultiset(files[CombinedPath].content,
                       [k \in 1..Len(transactions) |->
                          CsvRow(transactions[k])])

\* a mapped and an unmapped account both had transactions; the mapped ones
\* were submitted and the export was written
C5_Witness ==
  /\ dpc = "returned"
  /\ importResult = "true"
  /\ Written(CombinedPath)
  /\ \E k \in 1..Len(transactions) :
       transactions[k].account \notin Range(ObjectKeys(params))
  /\ \E c \in 1..Len(importCalls) : Len(importCalls[c].transactions) > 0

-----------------------------------------------------------------------------
(* Properties of the pure helpers *)

\* Math.round(absoluteAmount * 100), stated on thousandths
RoundedCents(a) ==
  IF a.k = "fin" THEN Fin(1000 * ((100 * a.v + 500) \div 1000)) ELSE a

Negated(n) == [n EXCEPT !.v = -n.v]

\* the amount the ledger is to receive for a transaction
ExpectedLedgerAmount(t) ==
  IF t.isDebit THEN Negated(RoundedCents(t.absoluteAmount))
  ELSE RoundedCents(t.absoluteAmount)

\* C4 as stated: the ledger amount is round(absoluteAmount * 100) * sign,
\* and it has the opposite sign of Transaction.amount or both are zero.
C4_OppositeSignOrBothZero ==
  fnCall = "convertTransaction" =>
    /\ fnRet.amount = ExpectedLedgerAmount(fnArg)
    /\ \/ NumSign(fnRet.amount) = -NumSign(TransactionAmount(fnArg))
          /\ NumSign(fnRet.amount) # 0
       \/ NumSign(fnRet.amount) = 0 /\ NumSign(TransactionAmount(fnArg)) = 0

\* C4 amended: the ledger amount is round(absoluteAmount * 100) * sign
\* (-4250 and +4250 for a debit and a credit of 42.5); it is zero or has
\* the opposite sign of Transaction.amount.
C4_OppositeSignOrZero ==
  fnCall = "convertTransaction" =>
    /\ fnRet.amount = ExpectedLedgerAmount(fnArg)
    /\ fnArg.absoluteAmount = Fin(42500) =>
         fnRet.amount = Fin(IF fnArg.isDebit THEN -4250000 ELSE 4250000)
    /\ \/ NumSign(fnRet.amount) = 0
       \/ NumSign(fnRet.amount) = -NumSign(TransactionAmount(fnArg))

\* a debit of 42.5 was converted
C4_Witness ==
  /\ fnCall = "convertTransaction"
  /\ fnArg.absoluteAmount = Fin(42500)
  /\ fnArg.isDebit
  /\ fnRet.amount = Fin(-4250000)

\* a debit below half a cent was converted
C4_WitnessSubCent ==
  /\ fnCall = "convertTransaction"
  /\ fnArg.absoluteAmount = Fin(4)
  /\ fnArg.isDebit

\* the text starts, after blanks and a sign, with digits or a fraction
Parseable(s) ==
  LET t == TrimStart(s)
      u == IF t # <<>> /\ t[1] \in {"-", "+"} THEN Tail(t) ELSE t
  IN \/ u # <<>> /\ u[1] \in Digits
     \/ Len(u) >= 2 /\ u[1] = "." /\ u[2] \in Digits

\* C9: parseFloatSafely returns a finite number for every text, and 0 for a
\* text that is no number.
C9_TotalAndFinite ==
  fnCall = "parseFloatSafely" =>
    /\ IsFinite(fnRet)
    /\ ~Parseable(IF fnArg.removeCommas THEN RemoveCommas(fnArg.floatString)
                  ELSE fnArg.floatString) => fnRet = Fin(0)

\* the reference cells that contribute: ref0 when it is neither empty nor the
\* sentinel, and each of ref1..ref3 that is not empty
Contributing(row) ==
  (IF row[1] # <<>> /\ row[1] # Sentinel THEN <<row[1]>> ELSE <<>>)
  \o SelectSeq(Tail(row), LAMBDA cell : cell # <<>>)

\* C10: the description is the contributing cells in the order ref0..ref3
\* joined by single spaces, or ref0 verbatim when none contributes.
C10_DescriptionOfContributingCells ==
  fnCall = "buildDescription" =>
    fnRet = IF Contributing(fnArg) = <<>> THEN fnArg[1]
            ELSE Join(Contributing(fnArg), <<" ">>)


-----------------------------------------------------------------------------
(* Properties of the parsers *)

NumNonNegative(n) == ~IsNaN(n) /\ n.v >= 0

\* a cell holds an amount: its text starts with a number
HoldsAmount(cell) == ~IsNaN(ParseFloat(cell))

\* the data rows of a Citi page, in source order: the rows with a date cell
DataRows(table) ==
  SelectSeq(TableRows(table), LAMBDA tr : ~SkipsRow(ParseRow(tr)))

\* the Transaction of the i-th row in source order, the parser emitting the
\* rows in reverse
EmittedFor(txs, i) == txs[Len(txs) + 1 - i]

\* C11: every Transaction a parser emits has absoluteAmount >= 0, whatever
\* the debit and credit cells hold, and a row with both a debit and a credit
\* amount gives the debit amount with isDebit true
C11_NonNegativeDebitOperative ==
  /\ (fnCall = "parseDbsCsv" /\ fnRet.kind = "return") =>
       \A i \in 1..Len(fnArg.rows) :
         LET row == fnArg.rows[i]
             t == EmittedFor(fnRet.transactions, i)
         IN /\ NumNonNegative(t.absoluteAmount)
            /\ (HoldsAmount(row.debit) /\ HoldsAmount(row.credit)) =>
                 /\ t.absoluteAmount = MathAbs(ParseFloat(row.debit))
                 /\ t.isDebit
  /\ (fnCall = "parseTable" /\ fnRet.kind = "return") =>
       \A i \in 1..Len(DataRows(fnArg)) :
         LET tr == DataRows(fnArg)[i]
             t == EmittedFor(fnRet.transactions, i)
         IN /\ NumNonNegative(t.absoluteAmount)
            /\ (/\ HoldsAmount(ParseNumber(tr.tds[3]))
                /\ HoldsAmount(ParseNumber(tr.tds[4]))) =>
                 /\ t.absoluteAmount
                      = MathAbs(ParseFloat(ParseNumber(tr.tds[3])))
                 /\ t.isDebit


\* the path of an artifact of a source
ArtifactPath(key, name) == key \o "/" \o name

\* the rows that do not carry the pending marker
SettledRows(rows) == SelectSeq(rows, LAMBDA tr : ~tr.pending)

C13_FailsFastWithoutSignature ==
  /\ (fnCall = "parseDbsCsv" /\ ~fnArg.signature) =>
       fnRet.kind = "throw" /\ fnRet.error = "Invalid CSV"
  /\ (fnCall = "parseTable" /\ ~fnArg.tbody) => fnRet.kind = "throw"

\* C15: a parser returns the Transactions of the data rows in reverse source
\* order: the k-th Transaction is the one built from row n + 1 - k of n
C15_ReverseSourceOrder ==
  /\ (fnCall = "parseDbsCsv" /\ fnRet.kind = "return") =>
       /\ Len(fnRet.transactions) = Len(fnArg.rows)
       /\ \A k \in 1..Len(fnArg.rows) :
            fnRet.transactions[k]
              = DbsRowTransaction(fnArg.account,
                                  fnArg.rows[Len(fnArg.rows) + 1 - k])
  /\ (fnCall = "parseTable" /\ fnRet.kind = "return") =>
       LET data == DataRows(fnArg)
       IN /\ Len(fnRet.transactions) = Len(data)
          /\ \A k \in 1..Len(data) :
               fnRet.transactions[k]
                 = CitiRowTransaction(ParseRow(data[Len(data) + 1 - k]))

\* an export of two rows that give different Transactions
C15_Witness ==
  /\ fnCall = "parseDbsCsv"
  /\ fnRet.kind = "return"
  /\ Len(fnArg.rows) = MaxRows
  /\ fnRet.transactions[1] # fnRet.transactions[Len(fnRet.transactions)]

\* a page of two data rows that give different Transactions
C15_WitnessTable ==
  /\ fnCall = "parseTable"
  /\ fnRet.kind = "return"
  /\ Len(DataRows(fnArg)) = MaxRows
  /\ fnRet.transactions[1] # fnRet.transactions[Len(fnRet.transactions)]


\* the DBS exports stored for a source, in the order of their download
StoredExports(key) ==
  LET path(n) == ArtifactPath(key, DbsLabel \o " " \o ToString(n) \o ".csv")
      count == Cardinality({n \in 0..(MaxDocs - 1) :
                              path(n) \in DOMAIN artifacts})
  IN [n \in 1..count |-> artifacts[path(n - 1)]]

\* setError was called for the source
FailureRecorded(key) == \E i \in 1..Len(errors) : errors[i].key = key

\* C14: a parser's fatal error on one document is recorded as a failure of
\* its source and does not leave processSources, and every other document of
\* the batch, those of the same source too, is parsed and its Transactions
\* are in the aggregate the two writers take
C14_ParserFailureRecoverable ==
  \A i \in 1..srcIdx :
    LET key == sources[i].key
        exports == StoredExports(key)
        html == ArtifactPath(key, "table.html")
    IN /\ \A n \in 1..Len(exports) :
            IF ParseDbsCsv(exports[n]).kind = "throw"
            THEN FailureRecorded(key)
            ELSE \A t \in Range(ParseDbsCsv(exports[n]).transactions) :
                   t \in Range(Aggregate(outputs))
       /\ (/\ html \in DOMAIN artifacts
           /\ ParseTable(artifacts[html]).kind = "throw") =>
            FailureRecorded(key)


\* the transactions of a date, in the order of the concatenated outputs
AggregateOn(d) == SelectSeq(Aggregate(outputs), LAMBDA t : t.date = d)

\* C16: in transactions.csv and in output.json the transactions of one date
\* stand in the order they have in the concatenation of the driver outputs
C16_TiesKeepConcatenationOrder ==
  \A d \in DateSet :
    /\ Written(CombinedPath) =>
         SelectSeq(files[CombinedPath].content,
                   LAMBDA row : row[1] = PlainDateToString(d))
           = [i \in 1..Len(AggregateOn(d)) |-> CsvRow(AggregateOn(d)[i])]
    /\ Written(PlaceholderPath) =>
         SelectSeq(files[PlaceholderPath].content.transactions,
                   LAMBDA t : t.date = PlainDateToString(d))
           = [i \in 1..Len(AggregateOn(d)) |->
                JsonTransaction(AggregateOn(d)[i])]

\* both files written from an aggregate in which two different transactions
\* of one source and one of another source share a date
C16_Witness ==
  /\ Written(CombinedPath)
  /\ Written(PlaceholderPath)
  /\ \E d \in DateSet :
       /\ Len(AggregateOn(d)) = MaxTx
       /\ \E o \in Range(outputs) :
            \E i, j \in 1..Len(o.transactions) :
              /\ o.transactions[i].date = d
              /\ o.transactions[j].date = d
              /\ o.transactions[i] # o.transactions[j]
       /\ \E i, j \in 1..MaxTx :
            AggregateOn(d)[i].account # AggregateOn(d)[j].account


-----------------------------------------------------------------------------
(* Properties of importTransactions *)

\* the positions, in input order, of the transactions of an account
PositionsOf(account) ==
  SelectSeq([k \in 1..Len(transactions) |-> k],
            LAMBDA k : transactions[k].account = account)

\* C17: importTransactions writes one payload per key of the mapping, in key
\* order, for a key without transactions too, and the payload of a key holds
\* one record per input transaction of that account, in input order,
\* duplicates included
C17_OnePayloadPerKeyNothingDropped ==
  dpc \in {"waiting", "returned"} =>
    /\ Len(written) = Len(ObjectKeys(params))
    /\ \A i \in 1..Len(written) :
         LET positions == PositionsOf(ObjectKeys(params)[i])
             records == written[i].transactions
         IN /\ written[i].account = ObjectKeys(params)[i]
            /\ Len(records) = Len(positions)
            /\ \A j \in 1..Len(positions) :
                 LET t == transactions[positions[j]]
                 IN /\ records[j].date = PlainDateToString(t.date)
                    /\ records[j].notes = t.description
                    /\ records[j].amount
                         = JsonNumber(ConvertTransaction(t).amount)

\* payloads were written for a key with two equal transactions and for a key
\* with none
C17_Witness ==
  /\ dpc \in {"waiting", "returned"}
  /\ \E i, j \in 1..Len(written) :
       /\ Len(written[i].transactions) = 0
       /\ Len(written[j].transactions) = MaxLedgerTx
       /\ written[j].transactions[1] = written[j].transactions[MaxLedgerTx]

=============================================================================
